---- MODULE Spec2Model ----
(***************************************************************************)
(* The IPv6 relay handler of manga-proxy.  Two handlers live in the        *)
(* repository: the one index.js mounts on /i6 (src/unnamed/part_000,       *)
(* lines 89-404) and an earlier stand-alone one (src/unnamed/part_001).    *)
(* Both are modelled; cfg.impl says which of the two serves the request.   *)
(***************************************************************************)
EXTENDS Integers, Sequences, FiniteSets, TLC

VARIABLES cfg, now, ifaceAddrs, req, h, res

vars == <<cfg, now, ifaceAddrs, req, h, res>>

(***************************************************************************)
(* Bounds of the model.                                                    *)
(***************************************************************************)
\* crypto.randomBytes yields 16-bit words drawn from 0..MaxRand
MaxRand == 1

(***************************************************************************)
(* JavaScript values.                                                      *)
(***************************************************************************)
Undefined == "<undefined>"
Null == "<null>"

\* JavaScript truthiness of a string-or-missing value
Truthy(v) == v \notin {Undefined, Null, ""}

\* the empty object {}
EmptyObj == [k \in {} |-> ""]

\* o[k] of a plain object: undefined when the key is absent
Get(o, k) == IF k \in DOMAIN o THEN o[k] ELSE Undefined

\* o[k] = v
Put(o, k, v) == [x \in DOMAIN o \cup {k} |-> IF x = k THEN v ELSE o[x]]

\* Object.assign(a, b): b's keys win, keys are case-sensitive
ObjectAssign(a, b) == [k \in DOMAIN a \cup DOMAIN b |-> IF k \in DOMAIN b THEN b[k] ELSE a[k]]

(***************************************************************************)
(* Strings.                                                                *)
(***************************************************************************)
CharAt(s, i) == SubSeq(s, i, i)

LowerChar(c) ==
  CASE c = "A" -> "a" []
       c = "B" -> "b" []
       c = "C" -> "c" []
       c = "D" -> "d" []
       c = "E" -> "e" []
       c = "F" -> "f" []
       c = "G" -> "g" []
       c = "H" -> "h" []
       c = "I" -> "i" []
       c = "J" -> "j" []
       c = "K" -> "k" []
       c = "L" -> "l" []
       c = "M" -> "m" []
       c = "N" -> "n" []
       c = "O" -> "o" []
       c = "P" -> "p" []
       c = "Q" -> "q" []
       c = "R" -> "r" []
       c = "S" -> "s" []
       c = "T" -> "t" []
       c = "U" -> "u" []
       c = "V" -> "v" []
       c = "W" -> "w" []
       c = "X" -> "x" []
       c = "Y" -> "y" []
       c = "Z" -> "z" []
       OTHER -> c

RECURSIVE ToLowerCaseFrom(_, _)
\* the characters of s from position i on, lower-cased
ToLowerCaseFrom(s, i) ==
  IF i > Len(s) THEN "" ELSE LowerChar(CharAt(s, i)) \o ToLowerCaseFrom(s, i + 1)

\* String.prototype.toLowerCase
ToLowerCase(s) == ToLowerCaseFrom(s, 1)

StartsWith(s, p) == Len(s) >= Len(p) /\ SubSeq(s, 1, Len(p)) = p

\* String.prototype.includes
Includes(s, p) == \E i \in 1..(Len(s) - Len(p) + 1) : SubSeq(s, i, i + Len(p) - 1) = p

RECURSIVE SplitFrom(_, _, _, _)
SplitFrom(s, sep, i, cur) ==
  IF i > Len(s) THEN <<cur>>
  ELSE IF CharAt(s, i) = sep THEN <<cur>> \o SplitFrom(s, sep, i + 1, "")
  ELSE SplitFrom(s, sep, i + 1, cur \o CharAt(s, i))

\* String.prototype.split on a one-character separator
Split(s, sep) == SplitFrom(s, sep, 1, "")

\* Array.prototype.filter(Boolean) on an array of strings
FilterBoolean(a) == SelectSeq(a, LAMBDA x : x # "")

RECURSIVE Join(_, _)
\* Array.prototype.join
Join(a, sep) ==
  IF Len(a) = 0 THEN ""
  ELSE IF Len(a) = 1 THEN a[1]
  ELSE a[1] \o sep \o Join(Tail(a), sep)

RECURSIVE Trim(_)
\* String.prototype.trim (spaces)
Trim(s) ==
  IF s = "" THEN ""
  ELSE IF CharAt(s, 1) = " " THEN Trim(SubSeq(s, 2, Len(s)))
  ELSE IF CharAt(s, Len(s)) = " " THEN Trim(SubSeq(s, 1, Len(s) - 1))
  ELSE s

RECURSIVE PadStart(_, _, _)
\* String.prototype.padStart with a one-character filler
PadStart(s, n, c) == IF Len(s) >= n THEN s ELSE PadStart(c \o s, n, c)

RECURSIVE ToRadix(_, _)
\* Number.prototype.toString(radix) of a non-negative integer, radix <= 16
ToRadix(n, radix) ==
  IF n < radix THEN CharAt("0123456789abcdef", n + 1)
  ELSE ToRadix(n \div radix, radix) \o CharAt("0123456789abcdef", (n % radix) + 1)

Range(f) == {f[i] : i \in DOMAIN f}

(***************************************************************************)
(* Configuration read from the environment (part_000 100-108).             *)
(***************************************************************************)
VERSION == "1.0.0"
INTERFACE == "ens3"

\* the two handlers of the repository
Impls == {"part_000", "part_001"}

\* whether this handler reads I6_REQUIRE_TOKEN at all: part_001 has no such flag
TokenRequired(c) == IF c.impl = "part_000" THEN c.REQUIRE_TOKEN ELSE TRUE

(***************************************************************************)
(* randomIPv6                                                              *)
(***************************************************************************)
\* buf.readUInt16BE(2*(i-1)).toString(16).padStart(4,'0')
Hextet(w) == PadStart(ToRadix(w, 16), 4, "0")

\* what crypto.randomBytes(2*n) may return, as n 16-bit words
RandomWords(n) == {[i \in 1..n |-> w] : w \in 0..MaxRand}

prefParts(c) == FilterBoolean(Split(c.IPV6_PREFIX, ":"))
subParts(c) == FilterBoolean(Split(c.IPV6_SUBNET, ":"))

\* number of random hextets the generator asks for
remaining(c) == IF c.impl = "part_000" THEN 8 - (Len(prefParts(c)) + Len(subParts(c))) ELSE 4

\* part_000: null when there is no room for a random hextet
randomIPv6New(c, buf) ==
  IF remaining(c) <= 0 \/ remaining(c) > 8 THEN Null
  ELSE Join(prefParts(c) \o subParts(c) \o [i \in 1..remaining(c) |-> Hextet(buf[i])], ":")

\* part_001: prefix and subnet pasted as configured, then four random hextets
randomIPv6Old(c, buf) ==
  c.IPV6_PREFIX \o ":" \o c.IPV6_SUBNET \o ":" \o Hextet(buf[1]) \o ":" \o Hextet(buf[2])
    \o ":" \o Hextet(buf[3]) \o ":" \o Hextet(buf[4])

randomIPv6(c, buf) == IF c.impl = "part_000" THEN randomIPv6New(c, buf) ELSE randomIPv6Old(c, buf)

\* the words randomIPv6 draws (none when it returns null before drawing)
RandomBufs(c) ==
  IF c.impl = "part_000" /\ (remaining(c) <= 0 \/ remaining(c) > 8) THEN {<<>>}
  ELSE RandomWords(remaining(c))

\* every address the generator can return under configuration c
GeneratedAddrs(c) == {randomIPv6(c, b) : b \in RandomBufs(c)}

\* a full-form IPv6 literal: eight non-empty hextets (what `ip` and bind accept)
WellFormedIPv6(ip) ==
  /\ Truthy(ip)
  /\ Len(Split(ip, ":")) = 8
  /\ \A i \in 1..8 : Len(Split(ip, ":")[i]) \in 1..4

(***************************************************************************)
(* deriveDynamicKey / validateApiToken                                     *)
(***************************************************************************)
BucketSeconds == 180

\* Math.floor(Date.now()/1000/(3*60))*(3*60), as a decimal string
deriveDynamicKey(t) == ToRadix((t \div BucketSeconds) * BucketSeconds, 10)

\* the hex digest of HMAC-SHA256: 64 characters, one per (key, message)
HmacSha256Hex(key, msg) == PadStart(key \o "|" \o msg, 64, "0")

\* the token a client computes for time t
TokenAt(t) == HmacSha256Hex(deriveDynamicKey(t), "proxy-access")

\* mutant: the digests are compared by length only
validateApiTokenLengthOnly(token, t) ==
  Len(IF Truthy(token) THEN token ELSE "") = Len(HmacSha256Hex(deriveDynamicKey(t), "proxy-access"))

\* mutant: the bucket is rounded up instead of down
validateApiTokenNextBucket(token, t) ==
  LET expected == HmacSha256Hex(ToRadix(((t \div BucketSeconds) + 1) * BucketSeconds, 10), "proxy-access")
      given == IF Truthy(token) THEN token ELSE ""
  IN  IF Len(given) # Len(expected) THEN FALSE ELSE given = expected

\* crypto.timingSafeEqual throws on a length mismatch; the catch returns false
validateApiToken(token, t) ==
  LET expected == HmacSha256Hex(deriveDynamicKey(t), "proxy-access")
      given == IF Truthy(token) THEN token ELSE ""
  IN  IF Len(given) # Len(expected) THEN FALSE ELSE given = expected

(***************************************************************************)
(* ensureUrlHasScheme                                                      *)
(***************************************************************************)
\* mutant: the scheme test is case-sensitive
ensureUrlHasSchemeCaseSensitive(url) ==
  IF StartsWith(url, "http://") \/ StartsWith(url, "https://") THEN url ELSE "https://" \o url

ensureUrlHasScheme(url) ==
  IF StartsWith(ToLowerCase(url), "http://") \/ StartsWith(ToLowerCase(url), "https://")
    THEN url
    ELSE "https://" \o url

(***************************************************************************)
(* Transports: pickAgents, chooseFromList, buildProxyAgents                *)
(***************************************************************************)
NoAgent == [kind |-> "undefined", proxy |-> Undefined, localAddress |-> Undefined]

pickAgents(localAddress) ==
  [httpAgent |-> [kind |-> "http.Agent", proxy |-> Undefined, localAddress |-> localAddress],
   httpsAgent |-> [kind |-> "https.Agent", proxy |-> Undefined, localAddress |-> localAddress]]

\* the candidates chooseFromList picks from (null when there is none)
chooseFromList(listStr) ==
  LET arr == FilterBoolean([i \in DOMAIN Split(listStr, ",") |-> Trim(Split(listStr, ",")[i])])
  IN  IF Len(arr) = 0 THEN {Null} ELSE Range(arr)

\* url.protocol of new URL(s), or Undefined when the constructor throws
UrlProtocol(s) ==
  LET p == Split(s, ":")
  IN  IF Len(p) < 2 \/ p[1] = "" \/ Includes(p[1], " ") \/ Includes(p[1], "/")
        THEN Undefined
        ELSE ToLowerCase(p[1]) \o ":"

buildProxyAgents(proxyUrl, localAddress) ==
  LET proto == UrlProtocol(proxyUrl)
  IN  IF proto # Undefined /\ StartsWith(proto, "socks")
        THEN [httpAgent |-> [kind |-> "SocksProxyAgent", proxy |-> proxyUrl, localAddress |-> localAddress],
              httpsAgent |-> [kind |-> "SocksProxyAgent", proxy |-> proxyUrl, localAddress |-> localAddress]]
      ELSE IF proto \in {"http:", "https:"}
        THEN [httpAgent |-> [kind |-> "HttpProxyAgent", proxy |-> proxyUrl, localAddress |-> localAddress],
              httpsAgent |-> [kind |-> "HttpsProxyAgent", proxy |-> proxyUrl, localAddress |-> localAddress]]
      ELSE [httpAgent |-> NoAgent, httpsAgent |-> NoAgent]

\* handler: the transports of the request, given the proxy picked and localIP
SelectAgents(c, upstream, localIP) ==
  IF c.impl = "part_000" /\ Truthy(upstream) THEN buildProxyAgents(upstream, localIP)
  ELSE IF Truthy(localIP) THEN pickAgents(localIP)
  ELSE [httpAgent |-> NoAgent, httpsAgent |-> NoAgent]

(***************************************************************************)
(* Header transforms                                                       *)
(***************************************************************************)
parseHeadersParam(p) == IF p.kind = "object" THEN p.obj ELSE EmptyObj

STRIP_REQ_HEADERS ==
  {"cf-connecting-ip", "cf-ipcountry", "cf-ray", "cf-visitor", "cf-worker", "cf-ew-via",
   "x-forwarded-for", "x-forwarded-proto", "x-real-ip", "cdn-loop"}

DEFAULT_UA == "Mozilla/5.0 (Windows NT 10.0; Win64; x64) AppleWebKit/537.36 (KHTML, like Gecko) Chrome/126.0.0.0 Safari/537.36"
DEFAULT_ACCEPT == "text/html,application/xhtml+xml,application/xml;q=0.9,image/avif,image/webp,*/*;q=0.8"
DEFAULT_ACCEPT_LANGUAGE == "en-US,en;q=0.9"

\* the client's headers the loop copies: part_001 drops host only
CopiedKeys(c, headers) ==
  {k \in DOMAIN headers :
     /\ ToLowerCase(k) # "host"
     /\ (c.impl = "part_000" => ToLowerCase(k) \notin STRIP_REQ_HEADERS)}

\* new URL(s).origin of a hierarchical URL, or Undefined when the constructor throws
UrlOrigin(s) ==
  LET p == Split(s, "/")
  IN  IF UrlProtocol(s) = Undefined \/ Len(p) < 3 \/ p[2] # "" \/ p[3] = ""
        THEN Undefined
        ELSE ToLowerCase(p[1]) \o "//" \o ToLowerCase(p[3])

\* part_000 348-370: browser-like defaults and the ua, referer and cookies overrides
WithDefaults(f0, q) ==
  LET f1 == IF Truthy(q.ua) THEN Put(f0, "user-agent", q.ua)
            ELSE IF ~Truthy(Get(f0, "user-agent")) THEN Put(f0, "user-agent", DEFAULT_UA)
            ELSE f0
      f2 == IF ~Truthy(Get(f1, "accept")) THEN Put(f1, "accept", DEFAULT_ACCEPT) ELSE f1
      f3 == IF ~Truthy(Get(f2, "accept-language"))
              THEN Put(f2, "accept-language", DEFAULT_ACCEPT_LANGUAGE) ELSE f2
      f4 == IF Truthy(q.referer) /\ ~Truthy(Get(f3, "referer"))
              THEN LET g == Put(f3, "referer", q.referer)
                   IN  IF ~Truthy(Get(g, "origin")) /\ UrlOrigin(q.referer) # Undefined
                         THEN Put(g, "origin", UrlOrigin(q.referer))
                         ELSE g
              ELSE f3
  IN  IF Truthy(q.cookies) THEN Put(f4, "cookie", q.cookies) ELSE f4

\* the headers sent upstream
FwdHeaders(c, rq) ==
  LET copied == [k \in CopiedKeys(c, rq.headers) |-> rq.headers[k]]
      merged == ObjectAssign(copied, parseHeadersParam(rq.query.headers))
  IN  IF c.impl = "part_000" THEN WithDefaults(merged, rq.query) ELSE merged

RESPONSE_SKIP == {"transfer-encoding", "content-length", "connection", "keep-alive", "server"}

\* mutant: the server header is let through
filterResponseHeadersKeepServer(headers) ==
  [k \in {x \in DOMAIN headers : ToLowerCase(x) \notin RESPONSE_SKIP \ {"server"}} |-> headers[k]]

filterResponseHeaders(headers) ==
  [k \in {x \in DOMAIN headers : ToLowerCase(x) \notin RESPONSE_SKIP} |-> headers[k]]

(***************************************************************************)
(* The handler, one request at a time: synchronous code runs to its next   *)
(* await in one step.                                                      *)
(***************************************************************************)
Reqs == {"r1", "r2"}

NoResponse == [status |-> 0, headers |-> EmptyObj, body |-> ""]

\* no command has closed yet; no error was caught
NoResult == [code |-> -1, out |-> "", err |-> ""]
NoError == [name |-> "", type |-> Undefined, message |-> ""]

\* the handler's locals before it runs
Frame0 ==
  [pc |-> "start", targetUrl |-> Undefined, localIP |-> Undefined, okIface |-> Undefined,
   added |-> Undefined, ok |-> Undefined, upstream |-> Undefined, httpAgent |-> NoAgent,
   httpsAgent |-> NoAgent, fwdHeaders |-> EmptyObj, timer |-> "unset",
   response |-> NoResponse, linkResult |-> NoResult, addResult |-> NoResult,
   caught |-> NoError, log |-> <<>>]

\* req.header(name): Node lower-cases the names of the headers it received
ReqHeader(rq, name) == Get(rq.headers, ToLowerCase(name))

\* the token the handler looks at: part_001 reads the header only
apiToken(c, rq) ==
  IF c.impl = "part_000"
    THEN IF Truthy(ReqHeader(rq, "API-Token")) THEN ReqHeader(rq, "API-Token") ELSE rq.query.token
    ELSE ReqHeader(rq, "API-Token")

\* mutant: the digest is keyed by the shared secret as well
AuthPassesKeyedBySecret(c, rq, t) ==
  IF c.impl = "part_000" /\ ~c.REQUIRE_TOKEN THEN TRUE
  ELSE /\ Truthy(apiToken(c, rq))
       /\ apiToken(c, rq) = HmacSha256Hex(c.SHARED_SECRET \o deriveDynamicKey(t), "proxy-access")

\* mutant: the 401 guard is lost
AuthPassesUnchecked(c, rq, t) == TRUE

\* the 401 guard's complement
AuthPasses(c, rq, t) ==
  IF c.impl = "part_000" /\ ~c.REQUIRE_TOKEN THEN TRUE
  ELSE Truthy(apiToken(c, rq)) /\ validateApiToken(apiToken(c, rq), t)

\* mutant: the negation of the url test is lost
IsInfoRequestUrlGiven(rq) == rq.method = "GET" /\ Truthy(rq.query.url)

\* req.method === 'GET' && !req.query.url
IsInfoRequest(rq) == rq.method = "GET" /\ ~Truthy(rq.query.url)

\* mutant: the missing-url test is lost
MissingUrlUnchecked(rq) == FALSE

\* !targetRaw
MissingUrl(rq) == ~Truthy(rq.query.url)

\* the liveness text
InfoBody(c, out) ==
  IF c.platform # "linux" THEN "i6.js running (v" \o VERSION \o ") on " \o c.platform
  ELSE "i6.js running (v" \o VERSION \o ")\n" \o out

\* localIP once the platform branch is left, off Linux: part_001 keeps the address
LocalIPOffLinux(c, ip) == IF c.impl = "part_000" THEN Undefined ELSE ip

\* mutant: the address is kept after a failed probe
LocalIPAfterProbeKept(ip, ok) == ip

\* localIP after the probe: undefined when it failed
LocalIPAfterProbe(ip, ok) == IF ok THEN ip ELSE Undefined

\* proxyParam || chooseFromList(process.env.I6_PROXY_LIST); part_001 has no proxy
Upstreams(c, rq) ==
  IF c.impl = "part_001" THEN {Undefined}
  ELSE IF Truthy(rq.query.proxy) THEN {rq.query.proxy}
  ELSE chooseFromList(c.I6_PROXY_LIST)

\* the timer after setTimeout: part_000 sets none when AbortController is undefined
TimerArmed(c) == IF c.hasAbort THEN "armed" ELSE "null"

\* from the transports to the fetch call: the frame when the handler awaits fetch.
\* part_001 calls new AbortController() unguarded: a ReferenceError where the
\* runtime has none, outside the try, so the handler ends without a response.
Forward(c, rq, hr, localIP, upstream) ==
  LET ag == SelectAgents(c, upstream, localIP)
      built == [hr EXCEPT !.localIP = localIP, !.upstream = upstream,
                          !.httpAgent = ag.httpAgent, !.httpsAgent = ag.httpsAgent,
                          !.fwdHeaders = FwdHeaders(c, rq)]
  IN  IF c.impl = "part_001" /\ ~c.hasAbort
        THEN [built EXCEPT !.pc = "crashed"]
        ELSE [built EXCEPT !.timer = TimerArmed(c), !.pc = "fetch", !.log = Append(@, "fetch")]

\* res.status(status).send(body) and the handler returns
Finish(r, hr, status, headers, body) ==
  /\ h' = [h EXCEPT ![r] = [hr EXCEPT !.pc = "done"]]
  /\ res' = [res EXCEPT ![r] = Append(@, [status |-> status, headers |-> headers, body |-> body])]

\* the handler goes on to its next await
Await(r, hr) ==
  /\ h' = [h EXCEPT ![r] = hr]
  /\ UNCHANGED res

\* handler entry up to the first await
HandlerEntry(r) ==
  /\ h[r].pc = "start"
  /\ LET rq == req[r] IN
       IF ~AuthPasses(cfg, rq, now)
         THEN Finish(r, h[r], 401, EmptyObj, "Unauthorized: invalid API-Token")
       ELSE IF IsInfoRequest(rq)
         THEN IF cfg.platform # "linux"
                THEN Finish(r, h[r], 200, EmptyObj, InfoBody(cfg, ""))
                ELSE Await(r, [h[r] EXCEPT !.pc = "infoCmd", !.log = Append(@, "ip -6 addr show")])
       ELSE IF MissingUrl(rq)
         THEN Finish(r, h[r], 400, EmptyObj, "Missing url")
       ELSE \E buf \in RandomBufs(cfg) :
              LET ip == randomIPv6(cfg, buf)
                  hr == [h[r] EXCEPT !.targetUrl = ensureUrlHasScheme(rq.query.url),
                                     !.localIP = ip, !.log = Append(@, "randomIPv6")]
              IN  IF cfg.platform = "linux"
                    THEN Await(r, [hr EXCEPT !.pc = "checkInterface", !.log = Append(@, "ip link show")])
                    ELSE \E up \in Upstreams(cfg, rq) :
                           Await(r, Forward(cfg, rq, hr, LocalIPOffLinux(cfg, ip), up))
  /\ UNCHANGED <<cfg, now, ifaceAddrs, req>>

\* what `ip -6 addr show` may print
InfoOutputs == {"", "inet6 ::1/128 scope host"}

\* the info command closes
InfoCmdDone(r) ==
  /\ h[r].pc = "infoCmd"
  /\ \E out \in InfoOutputs : Finish(r, h[r], 200, EmptyObj, InfoBody(cfg, out))
  /\ UNCHANGED <<cfg, now, ifaceAddrs, req>>

\* what `ip link show` may end with
IpLinkResults ==
  {[code |-> 0, out |-> "1: lo: <LOOPBACK> 2: ens3: <BROADCAST>", err |-> ""],
   [code |-> 0, out |-> "1: lo: <LOOPBACK> 2: eth0: <BROADCAST>", err |-> ""],
   [code |-> 127, out |-> "", err |-> "sh: 1: ip: not found"]}

checkInterface(result) == IF result.code # 0 THEN FALSE ELSE Includes(result.out, INTERFACE)

\* `ip link show` closes
CheckInterfaceDone(r) ==
  /\ h[r].pc = "checkInterface"
  /\ \E result \in IpLinkResults :
       LET okIface == checkInterface(result)
           hr == [h[r] EXCEPT !.okIface = IF okIface THEN "true" ELSE "false",
                              !.linkResult = result]
       IN  IF ~okIface
             THEN Finish(r, hr, 500, EmptyObj, "Interface " \o INTERFACE \o " not found")
           ELSE IF ~Truthy(hr.localIP)
             THEN \E up \in Upstreams(cfg, req[r]) :
                    Await(r, Forward(cfg, req[r], [hr EXCEPT !.added = "true", !.ok = "true"],
                                     hr.localIP, up))
           ELSE IF cfg.ENABLE_ASSIGN
             THEN Await(r, [hr EXCEPT !.pc = "addIPv6ToInterface", !.log = Append(@, "ip -6 addr add")])
           ELSE Await(r, [hr EXCEPT !.added = "true", !.pc = "testIPv6Connectivity",
                                    !.log = Append(@, "probe")])
  /\ UNCHANGED <<cfg, now, ifaceAddrs, req>>

\* what `ip -6 addr add <ip>/128 dev <iface>` may end with
AddResults(ip, addrs) ==
  IF ~WellFormedIPv6(ip)
    THEN {[code |-> 1, out |-> "", err |-> "Error: inet6 prefix is expected rather than the address given"]}
  ELSE {[code |-> 2, out |-> "", err |-> "RTNETLINK answers: Operation not permitted"]}
       \cup (IF ip \in addrs THEN {[code |-> 2, out |-> "", err |-> "RTNETLINK answers: File exists"]}
                             ELSE {[code |-> 0, out |-> "", err |-> ""]})

\* mutant: only "File exists" counts as a failure
addIPv6ToInterfaceInverted(result) ==
  ~(result.code # 0 /\ Includes(ToLowerCase(result.err), "file exists"))

\* mutant: every non-zero exit is a failure
addIPv6ToInterfaceStrict(result) == result.code = 0

\* the value addIPv6ToInterface returns once the command closed
addIPv6ToInterface(result) ==
  ~(result.code # 0 /\ ~Includes(ToLowerCase(result.err), "file exists"))

\* `ip -6 addr add` closes
AddAddrDone(r) ==
  /\ h[r].pc = "addIPv6ToInterface"
  /\ \E result \in AddResults(h[r].localIP, ifaceAddrs) :
       LET added == addIPv6ToInterface(result)
           hr == [h[r] EXCEPT !.added = IF added THEN "true" ELSE "false", !.addResult = result]
       IN  /\ ifaceAddrs' = IF result.code = 0 THEN ifaceAddrs \cup {h[r].localIP} ELSE ifaceAddrs
           /\ IF ~added
                THEN Finish(r, hr, 500, EmptyObj, "Failed to configure IPv6 address")
                ELSE Await(r, [hr EXCEPT !.pc = "testIPv6Connectivity", !.log = Append(@, "probe")])
  /\ UNCHANGED <<cfg, now, req>>

\* what the UDP bind-and-connect may resolve to
ProbeResults(ip) == IF WellFormedIPv6(ip) THEN {TRUE, FALSE} ELSE {FALSE}

\* testIPv6Connectivity resolves
ProbeDone(r) ==
  /\ h[r].pc = "testIPv6Connectivity"
  /\ \E ok \in ProbeResults(h[r].localIP) :
       \E up \in Upstreams(cfg, req[r]) :
         Await(r, Forward(cfg, req[r], [h[r] EXCEPT !.ok = IF ok THEN "true" ELSE "false"],
                          LocalIPAfterProbe(h[r].localIP, ok), up))
  /\ UNCHANGED <<cfg, now, ifaceAddrs, req>>

(***************************************************************************)
(* The upstream call under the deadline.                                   *)
(***************************************************************************)
\* what fetch may resolve to (node-fetch lower-cases header names)
UpstreamStatuses == {200, 404, 503}
UpstreamHeaderSets ==
  {[k \in {"x-test", "content-length", "server"} |->
      IF k = "x-test" THEN "1" ELSE IF k = "content-length" THEN "3" ELSE "nginx"]}
UpstreamBodies == {"abc"}
UpstreamResponses ==
  [status : UpstreamStatuses, headers : UpstreamHeaderSets, body : UpstreamBodies]

\* what fetch or the body read may reject with, the deadline's abort aside
UpstreamErrors ==
  {[name |-> "FetchError", type |-> "system", message |-> "connect ECONNREFUSED"],
   [name |-> "TypeError", type |-> Undefined, message |-> "Invalid URL"]}

\* the rejection controller.abort() causes
AbortError == [name |-> "AbortError", type |-> "aborted", message |-> "The operation was aborted."]

\* mutant: the abort is not told apart from other errors
CatchStatusAlways502(c, e) == 502

\* the catch block's status: part_001 looks at e.name only
CatchStatus(c, e) ==
  IF e.name = "AbortError" \/ (c.impl = "part_000" /\ e.type = "aborted") THEN 504 ELSE 502

CatchBody(c, e) ==
  IF CatchStatus(c, e) = 504 THEN "Request timed out" ELSE "Upstream error: " \o e.message

\* mutant: the finally block does not clear the timer
TimerLeftPending(t) == t

\* finally: clearTimeout(timer) when there is one
TimerCleared(t) == IF t = "armed" THEN "cleared" ELSE t

\* the catch and finally blocks
Caught(r, e) ==
  Finish(r, [h[r] EXCEPT !.timer = TimerCleared(@), !.caught = e], CatchStatus(cfg, e), EmptyObj,
         CatchBody(cfg, e))

\* mutant: a non-2xx upstream status is reported as an upstream error
RelayedOkOnly(response) ==
  IF response.status \in 200..299
    THEN [status |-> response.status, headers |-> filterResponseHeaders(response.headers),
          body |-> response.body]
    ELSE [status |-> 502, headers |-> EmptyObj, body |-> "Upstream error: bad status"]

\* the response relayed once the body is buffered
Relayed(response) ==
  [status |-> response.status, headers |-> filterResponseHeaders(response.headers),
   body |-> response.body]

\* fetch resolves with the upstream's status line and headers
FetchResolves(r) ==
  /\ h[r].pc = "fetch"
  /\ \E response \in UpstreamResponses :
       Await(r, [h[r] EXCEPT !.response = response, !.pc = "arrayBuffer"])
  /\ UNCHANGED <<cfg, now, ifaceAddrs, req>>

\* fetch rejects
FetchRejects(r) ==
  /\ h[r].pc = "fetch"
  /\ \E e \in UpstreamErrors : Caught(r, e)
  /\ UNCHANGED <<cfg, now, ifaceAddrs, req>>

\* the body is read in full and the response is relayed
BodyBuffered(r) ==
  /\ h[r].pc = "arrayBuffer"
  /\ LET out == Relayed(h[r].response)
     IN  Finish(r, [h[r] EXCEPT !.timer = TimerCleared(@)], out.status, out.headers, out.body)
  /\ UNCHANGED <<cfg, now, ifaceAddrs, req>>

\* the body read rejects
BodyRejects(r) ==
  /\ h[r].pc = "arrayBuffer"
  /\ \E e \in UpstreamErrors : Caught(r, e)
  /\ UNCHANGED <<cfg, now, ifaceAddrs, req>>

\* the deadline's timer fires: controller.abort() rejects the pending await
DeadlineAbort(r) ==
  /\ h[r].pc \in {"fetch", "arrayBuffer"}
  /\ h[r].timer = "armed"
  /\ Finish(r, [h[r] EXCEPT !.timer = "fired", !.caught = AbortError],
            CatchStatus(cfg, AbortError), EmptyObj, CatchBody(cfg, AbortError))
  /\ UNCHANGED <<cfg, now, ifaceAddrs, req>>

(***************************************************************************)
(* Configurations and requests explored.                                   *)
(***************************************************************************)
\* prefix and subnet: the defaults of part_000 and part_001, and one with no room left
IPv6Configs ==
  {<<"2001:41d0:601:1100", "5950">>, <<"2a01:e5c0:2d74", "1000">>,
   <<"2001:41d0:601:1100:a:b:c", "5950">>}

Platforms == {"linux", "darwin"}

Configs ==
  {c \in [impl : Impls, REQUIRE_TOKEN : BOOLEAN, platform : Platforms, ENABLE_ASSIGN : BOOLEAN,
          IPV6_PREFIX : {p[1] : p \in IPv6Configs}, IPV6_SUBNET : {p[2] : p \in IPv6Configs},
          hasAbort : BOOLEAN, I6_PROXY_LIST : {""}] :
     /\ <<c.IPV6_PREFIX, c.IPV6_SUBNET>> \in IPv6Configs
     /\ (c.platform # "linux" => ~c.ENABLE_ASSIGN)}

\* wall-clock times (seconds) at which requests are served
Times == {200}

\* tokens a client may send: this bucket's, an earlier bucket's
Tokens(t) == {TokenAt(t), TokenAt(t - BucketSeconds)}

ClientBase ==
  [k \in {"host", "cf-connecting-ip", "x-custom"} |->
     IF k = "host" THEN "relay.example" ELSE IF k = "cf-connecting-ip" THEN "1.2.3.4" ELSE "ok"]

\* the headers Node hands the handler (names lower-cased)
ClientHeaders(t) ==
  {ClientBase} \cup {Put(ClientBase, "api-token", v) : v \in Tokens(t) \cup {""}}

ExtraHeaderParams ==
  {[kind |-> "absent", obj |-> EmptyObj],
   [kind |-> "object",
    obj |-> [k \in {"Host", "CF-Ray"} |-> IF k = "Host" THEN "evil.example" ELSE "abc"]]}

Queries(t) ==
  [url : {Undefined, "example.com"}, token : {Undefined} \cup Tokens(t),
   headers : ExtraHeaderParams, referer : {Undefined}, cookies : {Undefined},
   ua : {Undefined}, proxy : {Undefined, "socks5://127.0.0.1:1080"}]

\* the token carriers vary with the other parameters at rest, and the other
\* parameters vary under this bucket's token in the header
Requests(t) ==
  {rq \in [method : {"GET", "POST"}, headers : ClientHeaders(t), query : Queries(t)] :
     \/ rq.headers = Put(ClientBase, "api-token", TokenAt(t)) /\ rq.query.token = Undefined
     \/ rq.query.headers.kind = "absent" /\ rq.query.proxy = Undefined}

\* no request served by this slot
Absent == [Frame0 EXCEPT !.pc = "absent"]

NoRequest == [method |-> "", headers |-> EmptyObj,
              query |-> [url |-> Undefined, token |-> Undefined,
                         headers |-> [kind |-> "absent", obj |-> EmptyObj],
                         referer |-> Undefined, cookies |-> Undefined, ua |-> Undefined,
                         proxy |-> Undefined]]

\* one request arrives; the interface holds no generated address or one of them
Init ==
  /\ cfg \in Configs
  /\ now \in Times
  /\ ifaceAddrs \in {{}} \cup {{a} : a \in {x \in GeneratedAddrs(cfg) : cfg.platform = "linux" /\ WellFormedIPv6(x)}}
  /\ \E rq \in Requests(now) : req = [r \in Reqs |-> IF r = "r1" THEN rq ELSE NoRequest]
  /\ h = [r \in Reqs |-> IF r = "r1" THEN Frame0 ELSE Absent]
  /\ res = [r \in Reqs |-> <<>>]

Next ==
  \E r \in Reqs :
    \/ HandlerEntry(r)
    \/ InfoCmdDone(r)
    \/ CheckInterfaceDone(r)
    \/ AddAddrDone(r)
    \/ ProbeDone(r)
    \/ FetchResolves(r)
    \/ FetchRejects(r)
    \/ BodyBuffered(r)
    \/ BodyRejects(r)
    \/ DeadlineAbort(r)

Spec == Init /\ [][Next]_vars

(***************************************************************************)
(* Properties.                                                             *)
(***************************************************************************)
\* the handler has run for r
Handled(r) == h[r].pc \notin {"absent", "start"}

\* r has been answered
Answered(r) == Len(res[r]) > 0

Status(r) == res[r][1].status

Did(r, step) == step \in Range(h[r].log)

\* a transport of r carries a local source address
BoundAddrs(r) == {a \in {h[r].httpAgent.localAddress, h[r].httpsAgent.localAddress} : Truthy(a)}

\* the token the handler reads is this bucket's token
TokenIsValid(r) == apiToken(cfg, req[r]) = TokenAt(now)

\* the request gets past authentication
Authenticated(r) == ~TokenRequired(cfg) \/ TokenIsValid(r)

\* C1: when a token is required, a request whose token is missing or fails
\* validation is answered 401 and nothing of the relay is done for it: no
\* interface listing, address generation or assignment, probe, info command or fetch.
C1_UnauthorizedDoesNothing ==
  \A r \in Reqs :
    (Handled(r) /\ TokenRequired(cfg) /\ ~TokenIsValid(r)) =>
      /\ h[r].pc = "done"
      /\ Len(res[r]) = 1
      /\ Status(r) = 401
      /\ h[r].log = <<>>

\* a stale token in the header was answered 401
C1_Witness ==
  \E r \in Reqs :
    /\ TokenRequired(cfg)
    /\ ReqHeader(req[r], "API-Token") = TokenAt(now - BucketSeconds)
    /\ Answered(r)
    /\ Status(r) = 401

\* C2: a transport is bound to a local address only if that address is the one
\* generated for the request, on Linux, after its assignment and its probe succeeded.
C2_LocalAddressOnlyIfVerified ==
  \A r \in Reqs :
    \A a \in BoundAddrs(r) :
      /\ cfg.platform = "linux"
      /\ a = h[r].localIP
      /\ h[r].added = "true"
      /\ h[r].ok = "true"
      /\ Did(r, "probe")

\* C3: the headers forwarded upstream hold no host key and no key of the strip
\* set, names compared case-insensitively, whatever the client and the headers
\* parameter supplied.
C3_NoStrippedHeaderForwarded ==
  \A r \in Reqs :
    \A k \in DOMAIN h[r].fwdHeaders :
      ToLowerCase(k) \notin
        {"host", "cf-connecting-ip", "cf-ipcountry", "cf-ray", "cf-visitor", "cf-worker",
         "cf-ew-via", "x-forwarded-for", "x-forwarded-proto", "x-real-ip", "cdn-loop"}

C5_UpstreamRelayedVerbatim ==
  \A r \in Reqs :
    (h[r].pc = "done" /\ h[r].response # NoResponse /\ h[r].caught = NoError) =>
      /\ Len(res[r]) = 1
      /\ Status(r) = h[r].response.status
      /\ res[r][1].body = h[r].response.body
      /\ \A k \in DOMAIN h[r].response.headers :
           ToLowerCase(k) \notin {"transfer-encoding", "content-length", "connection",
                                  "keep-alive", "server"} =>
             /\ k \in DOMAIN res[r][1].headers
             /\ res[r][1].headers[k] = h[r].response.headers[k]

\* an upstream 404 was relayed as 404 with its x-test header
C5_Witness ==
  \E r \in Reqs :
    /\ h[r].pc = "done"
    /\ h[r].response.status = 404
    /\ h[r].caught = NoError
    /\ Status(r) = 404
    /\ Get(res[r][1].headers, "x-test") = "1"

\* the steps of egress resolution and forwarding
RelaySteps == {"randomIPv6", "ip link show", "ip -6 addr add", "probe", "fetch"}

\* C6 as stated: a request with no url parameter gets a 2xx liveness response
\* with the version string and never reaches egress resolution or the fetch.
C6_NoUrlIsLiveness ==
  \A r \in Reqs :
    (Handled(r) /\ ~Truthy(req[r].query.url)) =>
      /\ Range(h[r].log) \cap RelaySteps = {}
      /\ Answered(r) => (Status(r) \in 200..299 /\ Includes(res[r][1].body, VERSION))

\* C6 amended: a GET request with no url parameter that gets past authentication
\* gets the 200 liveness response with the version string and never reaches
\* egress resolution or the fetch.
C6_GetNoUrlIsLiveness ==
  \A r \in Reqs :
    (Handled(r) /\ req[r].method = "GET" /\ ~Truthy(req[r].query.url) /\ Authenticated(r)) =>
      /\ Range(h[r].log) \cap RelaySteps = {}
      /\ h[r].pc \in {"infoCmd", "done"}
      /\ Answered(r) => (Len(res[r]) = 1 /\ Status(r) = 200 /\ Includes(res[r][1].body, VERSION))

\* on Linux the info command ran and the liveness response was sent
C6_Witness ==
  \E r \in Reqs :
    /\ req[r].method = "GET"
    /\ ~Truthy(req[r].query.url)
    /\ h[r].log = <<"ip -6 addr show">>
    /\ Answered(r)
    /\ Status(r) = 200

\* C7: an authenticated request that is not a GET and has no url is answered
\* 400 before any egress resolution or fetch.
C7_MissingUrlIs400 ==
  \A r \in Reqs :
    (Handled(r) /\ Authenticated(r) /\ req[r].method # "GET" /\ ~Truthy(req[r].query.url)) =>
      /\ h[r].pc = "done"
      /\ Len(res[r]) = 1
      /\ Status(r) = 400
      /\ h[r].log = <<>>

\* a POST with a valid token and no url was answered 400
C7_Witness ==
  \E r \in Reqs :
    /\ req[r].method = "POST"
    /\ TokenRequired(cfg)
    /\ TokenIsValid(r)
    /\ ~Truthy(req[r].query.url)
    /\ Answered(r)
    /\ Status(r) = 400

\* `ip link show` closed without listing the interface
InterfaceNotFound(r) ==
  h[r].linkResult # NoResult /\ ~Includes(h[r].linkResult.out, INTERFACE)

\* `ip -6 addr add` closed with an error other than address-already-present
AssignmentFailed(r) ==
  /\ h[r].addResult # NoResult
  /\ h[r].addResult.code # 0
  /\ ~Includes(h[r].addResult.err, "File exists")

\* C8: on Linux, an interface that is not found or an assignment that fails
\* with an error other than address-already-present gives 500, and neither the
\* probe nor the fetch is performed.
C8_InterfaceFailureIs500 ==
  \A r \in Reqs :
    (cfg.platform = "linux" /\ (InterfaceNotFound(r) \/ AssignmentFailed(r))) =>
      /\ h[r].pc = "done"
      /\ Len(res[r]) = 1
      /\ Status(r) = 500
      /\ ~Did(r, "probe")
      /\ ~Did(r, "fetch")

\* the assignment was refused and the request was answered 500
C8_Witness ==
  \E r \in Reqs :
    /\ h[r].addResult.code = 2
    /\ Includes(h[r].addResult.err, "Operation not permitted")
    /\ Answered(r)
    /\ Status(r) = 500

\* C9: a failed probe does not end the request: the local address is dropped,
\* no transport carries one, the fetch is issued, and the answer is the
\* upstream's status or the 502/504 of the upstream call.  (part_001 on a
\* runtime without AbortController never reaches its fetch, probe or no probe.)
C9_ProbeFailureFallsBack ==
  \A r \in Reqs :
    (h[r].ok = "false" /\ (cfg.impl = "part_000" \/ cfg.hasAbort)) =>
      /\ h[r].localIP = Undefined
      /\ BoundAddrs(r) = {}
      /\ Did(r, "fetch")
      /\ h[r].pc \in {"fetch", "arrayBuffer", "done"}
      /\ Answered(r) =>
           /\ Len(res[r]) = 1
           /\ h[r].caught = NoError => Status(r) = h[r].response.status
           /\ h[r].caught # NoError => Status(r) \in {502, 504}

\* the probe failed and the upstream's 200 was relayed over the default route
C9_Witness ==
  \E r \in Reqs :
    /\ h[r].ok = "false"
    /\ h[r].httpsAgent = NoAgent
    /\ h[r].pc = "done"
    /\ h[r].caught = NoError
    /\ Status(r) = 200

\* C10: this bucket's token is accepted from the API-Token header or from the
\* token query parameter, whatever the other carrier holds, and no request is
\* answered 401 when the configuration does not require a token.
C10_TokenFromEitherCarrier ==
  \A r \in Reqs :
    (Handled(r) /\ Answered(r)) =>
      /\ (ReqHeader(req[r], "API-Token") = TokenAt(now) \/ req[r].query.token = TokenAt(now)) =>
           Status(r) # 401
      /\ ~cfg.REQUIRE_TOKEN => Status(r) # 401

(***************************************************************************)
(* The token check over time: the clock moves between the moment a client  *)
(* computes its token and the moment the handler validates it.             *)
(***************************************************************************)
\* buckets 0..MaxBucket of the wall clock
MaxBucket == 3

\* the first and the last second of every bucket
AuthTimes == {b * BucketSeconds + o : b \in 0..MaxBucket, o \in {0, BucketSeconds - 1}}

\* strings that are no digest: too short, too long, and 64 characters of another shape
MalformedTokens ==
  {"abc", PadStart("", 63, "f"), PadStart("", 65, "f"), PadStart("proxy-access", 64, "z")}

\* what the API-Token header may carry
AuthTokens == {TokenAt(t) : t \in AuthTimes} \cup MalformedTokens \cup {""}

AuthConfigs ==
  [impl : Impls, REQUIRE_TOKEN : {TRUE}, platform : Platforms, ENABLE_ASSIGN : {FALSE},
   IPV6_PREFIX : {"2001:41d0:601:1100"}, IPV6_SUBNET : {"5950"}, hasAbort : {TRUE},
   I6_PROXY_LIST : {""}]

AuthRequests ==
  {[method |-> "GET", headers |-> hd, query |-> [NoRequest.query EXCEPT !.url = "example.com"]] :
     hd \in {ClientBase} \cup {Put(ClientBase, "api-token", v) : v \in AuthTokens}}

InitAuth ==
  /\ cfg \in AuthConfigs
  /\ now \in AuthTimes
  /\ ifaceAddrs = {}
  /\ \E rq \in AuthRequests : req = [r \in Reqs |-> IF r = "r1" THEN rq ELSE NoRequest]
  /\ h = [r \in Reqs |-> IF r = "r1" THEN Frame0 ELSE Absent]
  /\ res = [r \in Reqs |-> <<>>]

\* Date.now() moves on while the request is on its way to the handler
Tick ==
  /\ h["r1"].pc = "start"
  /\ \E t \in AuthTimes : t > now /\ now' = t
  /\ UNCHANGED <<cfg, ifaceAddrs, req, h, res>>

NextAuth ==
  \/ Tick
  \/ \E r \in Reqs : HandlerEntry(r)

SpecAuth == InitAuth /\ [][NextAuth]_vars

\* the bucket a time falls in
BucketOf(t) == t \div BucketSeconds

\* the token r sent was computed in a bucket b with |b - bucket of now| > 1
TokenOfFarBucket(r) ==
  \E t \in AuthTimes :
    /\ ReqHeader(req[r], "API-Token") = TokenAt(t)
    /\ (BucketOf(t) > BucketOf(now) + 1 \/ BucketOf(t) + 1 < BucketOf(now))

\* C11: at any time t, validateApiToken accepts the token computed for the
\* 180-second bucket containing t and rejects a token computed for a bucket
\* more than one bucket width before or after it; a token of the wrong length
\* or shape is rejected (the request is answered 401) rather than raising an error.
C11_TokenBucketWindow ==
  \A r \in Reqs :
    Handled(r) =>
      /\ (\E t \in AuthTimes : BucketOf(t) = BucketOf(now) /\ ReqHeader(req[r], "API-Token") = TokenAt(t))
           => ~(Answered(r) /\ Status(r) = 401)
      /\ TokenOfFarBucket(r) => Answered(r) /\ Status(r) = 401
      /\ ReqHeader(req[r], "API-Token") \in MalformedTokens
           => h[r].pc = "done" /\ Answered(r) /\ Status(r) = 401

\* the clock has moved into another bucket before a request carrying the new
\* bucket's token was let through
C11_Witness ==
  /\ Handled("r1")
  /\ now >= BucketSeconds
  /\ ReqHeader(req["r1"], "API-Token") = TokenAt(now)
  /\ ~Answered("r1")
  /\ Did("r1", "randomIPv6")

(***************************************************************************)
(* The address generator over prefix/subnet configurations.                *)
(***************************************************************************)
\* I6_IPV6_PREFIX has 1..MaxPrefixLen hextets, I6_IPV6_SUBNET 1..MaxSubnetLen
MaxPrefixLen == 8
MaxSubnetLen == 3

HextetsOfLen(first, n) == Join([i \in 1..n |-> IF i = 1 THEN first ELSE ToRadix(i, 16)], ":")

AddrConfigs ==
  [impl : Impls, REQUIRE_TOKEN : {FALSE}, platform : {"linux"}, ENABLE_ASSIGN : {TRUE},
   IPV6_PREFIX : {HextetsOfLen("2001", n) : n \in 1..MaxPrefixLen},
   IPV6_SUBNET : {HextetsOfLen("5950", n) : n \in 1..MaxSubnetLen},
   hasAbort : {TRUE}, I6_PROXY_LIST : {""}]

\* a request that gets past the token check of either handler
PlainRequest(t) ==
  [method |-> "GET", headers |-> Put(ClientBase, "api-token", TokenAt(t)),
   query |-> [NoRequest.query EXCEPT !.url = "example.com"]]

InitAddr ==
  /\ cfg \in AddrConfigs
  /\ now \in Times
  /\ ifaceAddrs = {}
  /\ req = [r \in Reqs |-> IF r = "r1" THEN PlainRequest(now) ELSE NoRequest]
  /\ h = [r \in Reqs |-> IF r = "r1" THEN Frame0 ELSE Absent]
  /\ res = [r \in Reqs |-> <<>>]

NextAddr == \E r \in Reqs : HandlerEntry(r)

SpecAddr == InitAddr /\ [][NextAddr]_vars

\* the configured hextets: prefix, then subnet
FixedHextets == prefParts(cfg) \o subParts(cfg)

\* C12: for every prefix/subnet configuration the address generator returns
\* the unusable sentinel exactly when len(prefix)+len(subnet) >= 8, and
\* otherwise exactly 8 colon-separated hextets whose first
\* len(prefix)+len(subnet) hextets are the prefix followed by the subnet; it
\* never returns an address with a number of hextets other than 8.
C12_GeneratedAddressShape ==
  \A r \in Reqs :
    h[r].pc = "checkInterface" =>
      LET ip == h[r].localIP IN
        /\ (ip = Null) <=> (Len(FixedHextets) >= 8)
        /\ ip # Null =>
             /\ Len(Split(ip, ":")) = 8
             /\ SubSeq(Split(ip, ":"), 1, Len(FixedHextets)) = FixedHextets

(***************************************************************************)
(* The outbound header transform over sets of upstream response headers.   *)
(***************************************************************************)
\* names response.headers.entries() may yield (node-fetch hands them lower-cased)
ResponseHeaderNames ==
  {"transfer-encoding", "content-length", "connection", "keep-alive", "server",
   "content-type", "set-cookie", "x-custom", "x-server"}

ResponseHeaderSets == {[k \in ks |-> "v-" \o k] : ks \in SUBSET ResponseHeaderNames}

RelayConfigs ==
  [impl : Impls, REQUIRE_TOKEN : {FALSE}, platform : {"darwin"}, ENABLE_ASSIGN : {FALSE},
   IPV6_PREFIX : {"2a01:e5c0:2d74"}, IPV6_SUBNET : {"1000"}, hasAbort : {TRUE},
   I6_PROXY_LIST : {""}]

\* the handler's frame when fetch has resolved with `response` (no proxy, off Linux)
FrameAtBody(c, rq, response) ==
  [Forward(c, rq, [Frame0 EXCEPT !.targetUrl = ensureUrlHasScheme(rq.query.url),
                                 !.log = <<"randomIPv6">>],
           LocalIPOffLinux(c, CHOOSE ip \in GeneratedAddrs(c) : TRUE), Undefined)
     EXCEPT !.response = response, !.pc = "arrayBuffer"]

\* fetch has resolved; the body is about to be buffered
InitRelay ==
  /\ cfg \in RelayConfigs
  /\ now \in Times
  /\ ifaceAddrs = {}
  /\ req = [r \in Reqs |-> IF r = "r1" THEN PlainRequest(now) ELSE NoRequest]
  /\ \E hs \in ResponseHeaderSets :
       h = [r \in Reqs |->
              IF r = "r1"
                THEN FrameAtBody(cfg, req[r], [status |-> 200, headers |-> hs, body |-> "abc"])
                ELSE Absent]
  /\ res = [r \in Reqs |-> <<>>]

NextRelay == \E r \in Reqs : BodyBuffered(r)

SpecRelay == InitRelay /\ [][NextRelay]_vars

\* the upstream's response of r has been relayed
RelayedTo(r) == h[r].pc = "done" /\ h[r].response.status # 0 /\ h[r].caught = NoError

\* C13: for every set of upstream response headers the outbound transform
\* removes exactly the headers named transfer-encoding, content-length,
\* connection, keep-alive and server (case-insensitively) and returns every
\* other header with its name and value unchanged.
C13_ResponseHeadersFiltered ==
  \A r \in Reqs :
    RelayedTo(r) =>
      LET given == h[r].response.headers
          sent == res[r][1].headers
      IN  /\ DOMAIN sent =
               {k \in DOMAIN given :
                  ToLowerCase(k) \notin {"transfer-encoding", "content-length", "connection",
                                         "keep-alive", "server"}}
          /\ \A k \in DOMAIN sent : sent[k] = given[k]

\* a response with all five dropped headers and others besides was relayed
C13_Witness ==
  /\ RelayedTo("r1")
  /\ DOMAIN h["r1"].response.headers = ResponseHeaderNames
  /\ DOMAIN res["r1"][1].headers = {"content-type", "set-cookie", "x-custom", "x-server"}

(***************************************************************************)
(* Scheme defaulting over target urls.                                     *)
(***************************************************************************)
\* values of the url parameter: bare hosts, both schemes in several casings,
\* other schemes and near misses
TargetUrls ==
  {"example.com", "example.com/a?b=1", "http://example.com", "https://example.com",
   "HTTP://EXAMPLE.COM", "HtTpS://example.com/x", "ftp://example.com", "http:/example.com",
   "//example.com", "httpx://example.com", "https:example.com", " http://example.com",
   "https://https://example.com"}

UrlConfigs ==
  [impl : Impls, REQUIRE_TOKEN : {FALSE}, platform : Platforms, ENABLE_ASSIGN : {FALSE},
   IPV6_PREFIX : {"2a01:e5c0:2d74"}, IPV6_SUBNET : {"1000"}, hasAbort : {TRUE},
   I6_PROXY_LIST : {""}]

InitUrl ==
  /\ cfg \in UrlConfigs
  /\ now \in Times
  /\ ifaceAddrs = {}
  /\ \E u \in TargetUrls :
       req = [r \in Reqs |-> IF r = "r1" THEN [PlainRequest(now) EXCEPT !.query.url = u]
                                         ELSE NoRequest]
  /\ h = [r \in Reqs |-> IF r = "r1" THEN Frame0 ELSE Absent]
  /\ res = [r \in Reqs |-> <<>>]

NextUrl == \E r \in Reqs : HandlerEntry(r)

SpecUrl == InitUrl /\ [][NextUrl]_vars

\* the value starts with http:// or https://, in any casing
HasHttpScheme(u) == \E p \in {"http://", "https://"} : StartsWith(ToLowerCase(u), p)

\* C14: a target url value that does not start with http:// or https://
\* (case-insensitive) is dispatched to https:// followed by the value; a value
\* that already starts with one of those schemes is dispatched unchanged, so
\* applying the scheme defaulting twice gives the same result as applying it once.
C14_SchemeDefaulting ==
  \A r \in Reqs :
    (Handled(r) /\ h[r].targetUrl # Undefined) =>
      LET u == req[r].query.url IN
        /\ ~HasHttpScheme(u) => h[r].targetUrl = "https://" \o u
        /\ HasHttpScheme(u) => h[r].targetUrl = u
        /\ ensureUrlHasScheme(h[r].targetUrl) = h[r].targetUrl

\* a bare host was given and the fetch is under way to its https:// form
C14_Witness ==
  /\ h["r1"].pc = "fetch"
  /\ req["r1"].query.url = "example.com"
  /\ h["r1"].targetUrl = "https://example.com"

(***************************************************************************)
(* Egress selection over upstream proxies and local addresses.             *)
(***************************************************************************)
\* proxy urls buildProxyAgents turns into agents
GoodProxies == {"socks5://127.0.0.1:1080", "http://10.0.0.1:3128"}

\* an unsupported scheme, and a string new URL() rejects
BadProxies == {"ftp://10.0.0.1", "not a url"}

ProxyConfigs ==
  [impl : Impls, REQUIRE_TOKEN : {FALSE}, platform : {"linux"}, ENABLE_ASSIGN : BOOLEAN,
   IPV6_PREFIX : {"2001:41d0:601:1100"}, IPV6_SUBNET : {"5950"}, hasAbort : {TRUE},
   I6_PROXY_LIST : {"", "socks5://127.0.0.1:1080, ftp://10.0.0.1"}]

InitProxy ==
  /\ cfg \in ProxyConfigs
  /\ now \in Times
  /\ ifaceAddrs = {}
  /\ \E px \in {Undefined} \cup GoodProxies \cup BadProxies :
       req = [r \in Reqs |-> IF r = "r1" THEN [PlainRequest(now) EXCEPT !.query.proxy = px]
                                         ELSE NoRequest]
  /\ h = [r \in Reqs |-> IF r = "r1" THEN Frame0 ELSE Absent]
  /\ res = [r \in Reqs |-> <<>>]

\* the handler up to the fetch call
NextProxy ==
  \E r \in Reqs :
    \/ HandlerEntry(r)
    \/ CheckInterfaceDone(r)
    \/ AddAddrDone(r)
    \/ ProbeDone(r)

SpecProxy == InitProxy /\ [][NextProxy]_vars

\* the transports of r are built
TransportsBuilt(r) == h[r].pc = "fetch"

\* r holds a local address that was assigned (or taken as present) and probed
VerifiedLocalAddress(r) == Truthy(h[r].localIP) /\ h[r].added = "true" /\ h[r].ok = "true"

\* C15: when the selected upstream proxy URL is malformed or has an
\* unsupported scheme it is treated as no proxy: if a verified local address
\* exists for the request, both transports are bound to that local address,
\* and only if none exists are both transports unset.
C15_BadProxyFallsThrough ==
  \A r \in Reqs :
    (TransportsBuilt(r) /\ h[r].upstream \in BadProxies) =>
      IF VerifiedLocalAddress(r)
        THEN /\ h[r].httpAgent.kind = "http.Agent"
             /\ h[r].httpsAgent.kind = "https.Agent"
             /\ h[r].httpAgent.localAddress = h[r].localIP
             /\ h[r].httpsAgent.localAddress = h[r].localIP
        ELSE h[r].httpAgent = NoAgent /\ h[r].httpsAgent = NoAgent

\* C16: exactly one egress identity is active per request: when an upstream
\* proxy is selected and a verified local address also exists, the
\* transports are built from the proxy alone and the local address is not
\* given to any transport as its source address.
C16_ProxyAloneWhenSelected ==
  \A r \in Reqs :
    (TransportsBuilt(r) /\ h[r].upstream \in GoodProxies /\ VerifiedLocalAddress(r)) =>
      /\ h[r].httpAgent.proxy = h[r].upstream
      /\ h[r].httpsAgent.proxy = h[r].upstream
      /\ BoundAddrs(r) = {}

(***************************************************************************)
(* The request lifecycle.                                                  *)
(***************************************************************************)
\* the lifecycle step a handler position belongs to: Authenticating,
\* ResolvingEgress, Forwarding (BuildingTransport runs inside the step that
\* issues the fetch), Responding, and the terminal states
StageOf(pc) ==
  CASE pc = "absent" -> 0
    [] pc = "start" -> 1
    [] pc \in {"checkInterface", "addIPv6ToInterface", "testIPv6Connectivity"} -> 2
    [] pc \in {"fetch", "arrayBuffer"} -> 4
    [] pc = "infoCmd" -> 5
    [] pc \in {"done", "crashed"} -> 6

\* how many times r has called fetch
FetchCount(r) == Len(SelectSeq(h[r].log, LAMBDA s : s = "fetch"))

\* egress resolution is over for r and nothing fatal came of it
EgressResolved(r) ==
  /\ ~InterfaceNotFound(r)
  /\ ~AssignmentFailed(r)
  /\ cfg.platform = "linux" =>
       /\ h[r].okIface = "true"
       /\ h[r].added = "true"
       /\ h[r].ok \in {"true", "false"}

\* C17: within one request the lifecycle steps occur only in the order
\* Authenticating, ResolvingEgress, BuildingTransport, Forwarding, Responding:
\* the upstream fetch is issued at most once per request, only after
\* authentication has passed and egress resolution has finished without a
\* fatal failure, and never after the request has reached Aborted or Completed.
C17_LifecycleOrder ==
  [][\A r \in Reqs :
       /\ StageOf(h'[r].pc) >= StageOf(h[r].pc)
       /\ FetchCount(r)' <= 1
       /\ FetchCount(r)' > FetchCount(r) =>
            /\ Authenticated(r)
            /\ EgressResolved(r)'
            /\ h[r].pc \notin {"done", "crashed"}
            /\ ~Answered(r)
       /\ h[r].pc \in {"done", "crashed"} => h'[r] = h[r] /\ res'[r] = res[r]]_vars

\* a request went through every step: token checked, interface checked,
\* address assigned and probed, one fetch, upstream's answer relayed
C17_Witness ==
  /\ h["r1"].pc = "done"
  /\ TokenRequired(cfg) /\ TokenIsValid("r1")
  /\ h["r1"].log = <<"randomIPv6", "ip link show", "ip -6 addr add", "probe", "fetch">>
  /\ Answered("r1") /\ Status("r1") = 200

(***************************************************************************)
(* The inbound header transform over user-agent carriers.                  *)
(***************************************************************************)
\* the client's own headers (Node lower-cases the names): with and without a user-agent
UaClientHeaders == {ClientBase, Put(ClientBase, "user-agent", "curl/8.0")}

\* the decoded `headers` parameter: keys as the caller spelled them
UaExtraHeaderParams ==
  {[kind |-> "absent", obj |-> EmptyObj],
   [kind |-> "object", obj |-> [k \in {"x-extra"} |-> "1"]],
   [kind |-> "object", obj |-> [k \in {"user-agent"} |-> "Extra/1.0"]],
   [kind |-> "object", obj |-> [k \in {"User-Agent"} |-> "Extra/1.0"]]}

UaRequests ==
  {[method |-> "GET", headers |-> hd,
    query |-> [NoRequest.query EXCEPT !.url = "example.com", !.headers = x, !.ua = ua,
                                      !.referer = rf, !.cookies = ck]] :
     hd \in UaClientHeaders, x \in UaExtraHeaderParams, ua \in {Undefined, "Override/2.0"},
     rf \in {Undefined, "https://site.example/page"}, ck \in {Undefined, "a=1"}}

\* the handler index.js mounts, where no address is assigned
UaConfigs ==
  [impl : {"part_000"}, REQUIRE_TOKEN : {FALSE}, platform : {"darwin"}, ENABLE_ASSIGN : {FALSE},
   IPV6_PREFIX : {"2001:41d0:601:1100"}, IPV6_SUBNET : {"5950"}, hasAbort : BOOLEAN,
   I6_PROXY_LIST : {""}]

InitUa ==
  /\ cfg \in UaConfigs
  /\ now \in Times
  /\ ifaceAddrs = {}
  /\ \E rq \in UaRequests : req = [r \in Reqs |-> IF r = "r1" THEN rq ELSE NoRequest]
  /\ h = [r \in Reqs |-> IF r = "r1" THEN Frame0 ELSE Absent]
  /\ res = [r \in Reqs |-> <<>>]

NextUa == \E r \in Reqs : HandlerEntry(r)

SpecUa == InitUa /\ [][NextUa]_vars

\* the names of o that spell user-agent in some casing
UserAgentKeys(o) == {k \in DOMAIN o : ToLowerCase(k) = "user-agent"}

\* the user-agent left by the merge of the extra headers over the client's, if any
MergedUserAgent(rq) ==
  LET extra == rq.query.headers.obj IN
    IF UserAgentKeys(extra) # {} THEN extra[CHOOSE k \in UserAgentKeys(extra) : TRUE]
    ELSE Get(rq.headers, "user-agent")

\* C18: after the inbound transform the forwarded headers contain exactly one
\* user-agent header, comparing names case-insensitively: its value is the ua
\* override when one is supplied, otherwise the user-agent present after
\* merging the extra headers, otherwise the fixed desktop-browser string.
C18_OneUserAgent ==
  \A r \in Reqs :
    h[r].pc = "fetch" =>
      LET f == h[r].fwdHeaders
          expected == IF Truthy(req[r].query.ua) THEN req[r].query.ua
                      ELSE IF Truthy(MergedUserAgent(req[r])) THEN MergedUserAgent(req[r])
                      ELSE DEFAULT_UA
      IN  /\ Cardinality(UserAgentKeys(f)) = 1
          /\ \A k \in UserAgentKeys(f) : f[k] = expected

(***************************************************************************)
(* Two requests in flight against the same interface.                      *)
(***************************************************************************)
RaceConfigs ==
  [impl : Impls, REQUIRE_TOKEN : {FALSE}, platform : {"linux"}, ENABLE_ASSIGN : {TRUE},
   IPV6_PREFIX : {"2001:41d0:601:1100"}, IPV6_SUBNET : {"5950"}, hasAbort : {TRUE},
   I6_PROXY_LIST : {""}]

\* both requests have arrived; the interface holds no generated address or one of them
InitRace ==
  /\ cfg \in RaceConfigs
  /\ now \in Times
  /\ ifaceAddrs \in {{}} \cup {{a} : a \in GeneratedAddrs(cfg)}
  /\ req = [r \in Reqs |-> PlainRequest(now)]
  /\ h = [r \in Reqs |-> Frame0]
  /\ res = [r \in Reqs |-> <<>>]

\* the handlers' steps up to the fetch call, interleaved at their awaits
NextRace ==
  \E r \in Reqs :
    \/ HandlerEntry(r)
    \/ CheckInterfaceDone(r)
    \/ AddAddrDone(r)
    \/ ProbeDone(r)

SpecRace == InitRace /\ [][NextRace]_vars

\* `ip -6 addr add` of r closed with address-already-present
AddressAlreadyPresent(r) ==
  /\ h[r].addResult # NoResult
  /\ h[r].addResult.code # 0
  /\ Includes(h[r].addResult.err, "File exists")

\* C19: when two or more requests run concurrently against the same
\* interface, in any interleaving of their interface-check, assignment and
\* probe steps, no request is answered 500 because another request added the
\* same or a different address first: an assignment that fails with
\* address-already-present counts as success.
C19_RacingAssignmentsTolerated ==
  \A r \in Reqs :
    /\ AddressAlreadyPresent(r) =>
         /\ h[r].added = "true"
         /\ ~Answered(r)
         /\ h[r].pc \in {"testIPv6Connectivity", "fetch"}
    /\ (Answered(r) /\ Status(r) = 500) => InterfaceNotFound(r) \/ AssignmentFailed(r)

\* r1 added an address, r2 generated the same one, found it present and went on to its fetch
C19_Witness ==
  /\ h["r1"].addResult.code = 0
  /\ h["r1"].pc = "testIPv6Connectivity"
  /\ AddressAlreadyPresent("r2")
  /\ h["r2"].fwdHeaders # EmptyObj
  /\ h["r2"].localIP \in ifaceAddrs
  /\ h["r1"].localIP = h["r2"].localIP
  /\ h["r2"].pc = "fetch"

(***************************************************************************)
(* The token check over values of the configured shared secret.            *)
(***************************************************************************)
\* I6_SHARED_SECRET: the defaults of the two handlers, and another value
SharedSecrets == {"c", "rXPACddng7mFAbjPP4feLFS1maXg3vpW", "s3cret"}

SecretConfigs ==
  [impl : Impls, REQUIRE_TOKEN : BOOLEAN, platform : {"darwin"}, ENABLE_ASSIGN : {FALSE},
   IPV6_PREFIX : {"2a01:e5c0:2d74"}, IPV6_SUBNET : {"1000"}, hasAbort : {TRUE},
   I6_PROXY_LIST : {""}, SHARED_SECRET : SharedSecrets]

InitSecret ==
  /\ cfg \in SecretConfigs
  /\ now \in AuthTimes
  /\ ifaceAddrs = {}
  /\ \E rq \in AuthRequests : req = [r \in Reqs |-> IF r = "r1" THEN rq ELSE NoRequest]
  /\ h = [r \in Reqs |-> IF r = "r1" THEN Frame0 ELSE Absent]
  /\ res = [r \in Reqs |-> <<>>]

NextSecret == \E r \in Reqs : HandlerEntry(r)

SpecSecret == InitSecret /\ [][NextSecret]_vars

\* r was turned away by the token check
Rejected(r) == Answered(r) /\ Status(r) = 401

\* C20: for a fixed wall-clock time and a fixed supplied token the
\* authentication outcome is the same for every value of the configured
\* shared secret: token validity depends only on the token and the current
\* 180-second time bucket.
C20_SecretIndependentAuth ==
  \A r \in Reqs :
    Handled(r) =>
      /\ \A s \in SharedSecrets :
           Rejected(r) = ~AuthPasses([cfg EXCEPT !.SHARED_SECRET = s], req[r], now)
      /\ TokenRequired(cfg) =>
           (Rejected(r) <=> ReqHeader(req[r], "API-Token") # TokenAt(BucketOf(now) * BucketSeconds))

\* under a secret other than the handlers' defaults, this bucket's token was
\* let through where a token is required
C20_Witness ==
  /\ Handled("r1")
  /\ TokenRequired(cfg)
  /\ cfg.SHARED_SECRET = "s3cret"
  /\ ReqHeader(req["r1"], "API-Token") = TokenAt(now)
  /\ ~Rejected("r1")
  /\ h["r1"].pc = "fetch"

(***************************************************************************)
(* Progress: commands close, probes call back and armed timers fire; the   *)
(* upstream owes nothing.                                                  *)
(***************************************************************************)
LiveConfigs ==
  {c \in Configs : <<c.IPV6_PREFIX, c.IPV6_SUBNET>> # <<"2a01:e5c0:2d74", "1000">>}

\* with and without url, with and without this bucket's token
LiveRequests(t) ==
  {[method |-> m, headers |-> hd, query |-> [NoRequest.query EXCEPT !.url = u]] :
     m \in {"GET", "POST"}, hd \in {ClientBase, Put(ClientBase, "api-token", TokenAt(t))},
     u \in {Undefined, "example.com"}}

InitLive ==
  /\ cfg \in LiveConfigs
  /\ now \in Times
  /\ ifaceAddrs = {}
  /\ \E rq \in LiveRequests(now) : req = [r \in Reqs |-> IF r = "r1" THEN rq ELSE NoRequest]
  /\ h = [r \in Reqs |-> IF r = "r1" THEN Frame0 ELSE Absent]
  /\ res = [r \in Reqs |-> <<>>]

\* the event loop runs a handler that can run; every spawned command closes;
\* the probe socket calls back; a timer that stays armed fires.  fetch and
\* the body read settle only if the upstream makes them.
Fairness ==
  \A r \in Reqs :
    /\ WF_vars(HandlerEntry(r))
    /\ WF_vars(InfoCmdDone(r))
    /\ WF_vars(CheckInterfaceDone(r))
    /\ WF_vars(AddAddrDone(r))
    /\ WF_vars(ProbeDone(r))
    /\ WF_vars(DeadlineAbort(r))

SpecLive == InitLive /\ [][Next]_vars /\ Fairness

\* C21: every request that enters the handler eventually sends exactly one
\* response (never zero, never two), assuming each spawned shell command
\* eventually closes and each probe socket eventually fires its callback or an
\* error event; an upstream that never answers is ended by the deadline.
C21_ExactlyOneResponse ==
  /\ \A r \in Reqs : (h[r].pc = "start") ~> (Len(res[r]) = 1)
  /\ [](\A r \in Reqs : Len(res[r]) <= 1)

(***************************************************************************)
(* The deadline timer.                                                     *)
(***************************************************************************)
\* setTimeout has been called for r and its timer neither fired nor was cleared
TimerPending(r) == h[r].timer = "armed"

\* r ended before the forwarding step: 401, 400, 500 or the info response
EndedBeforeForwarding(r) ==
  Answered(r) /\ (Status(r) \in {401, 400, 500} \/ ~Did(r, "fetch"))

\* C22: the deadline timer is started only when the forwarding step begins
\* and is cleared on every way out of that step (success, 502, 504): no
\* request that ended with 401, 400, 500 or the info response has a timer
\* pending, and no abort fires after a request's response has been sent.
C22_TimerScopedToForwarding ==
  /\ [](\A r \in Reqs :
          /\ h[r].timer # "unset" => Did(r, "fetch")
          /\ TimerPending(r) => h[r].pc \in {"fetch", "arrayBuffer"} /\ ~Answered(r)
          /\ Answered(r) => ~TimerPending(r)
          /\ EndedBeforeForwarding(r) => h[r].timer = "unset")
  /\ [][\A r \in Reqs :
          /\ (h[r].timer # "fired" /\ h'[r].timer = "fired") => ~Answered(r)
          /\ Answered(r) => h'[r].timer = h[r].timer]_vars

\* an upstream answer was relayed under an armed deadline and the timer was cleared on the way out
C22_Witness ==
  /\ h["r1"].pc = "done"
  /\ Did("r1", "fetch")
  /\ Answered("r1") /\ Status("r1") = 200
  /\ h["r1"].response.status = 200
  /\ h["r1"].timer = "cleared"
====
